---- MODULE Spec2Model ----
(***************************************************************************)
(* Model of the DocumentSummarizer component (src/src/App.jsx): the React  *)
(* state of the component, its event handlers (handleFileSelect,           *)
(* handleChat, resetApp, the view tabs, the chat input) and the            *)
(* continuations of its asynchronous handlers (the code after each await), *)
(* which run later, interleaved with other events.                         *)
(*                                                                         *)
(* A handler can be invoked when the element it is bound to is rendered    *)
(* (the file input in the upload view, the tabs in the summary and chat    *)
(* views, the chat input and Send button in the chat view, the Reset       *)
(* button while file is set).  The disabled attributes of the chat input   *)
(* and the Send button (lines 482, 486) repeat the test of line 133 and    *)
(* are not modelled: the guard of handleChat itself decides.  State        *)
(* updates made between two awaits are applied together, before the next   *)
(* event is handled.                                                       *)
(*                                                                         *)
(* Text is a sequence of tokens: a token is one character ("a", " ",       *)
(* "\n") or one fixed literal of the source taken as a whole.              *)
(***************************************************************************)
EXTENDS Integers, Sequences, FiniteSets, TLC

\* Bounds of the model: ingestions started and chat calls dispatched in a run.
MaxIngest == 2
MaxChats == 2

VARIABLES
    file,            \* useState(null): name of the selected document, or Null
    extractedText,   \* useState('')
    summaries,       \* useState(null): <<>> is null, <<data>> the service's record
    loading,         \* useState(false)
    chatMessages,    \* useState([])
    chatInput,       \* useState('')
    chatLoading,     \* useState(false)
    activeView,      \* useState('upload')
    error,           \* useState('')
    ingests,         \* handleFileSelect invocations suspended at an await
    started,         \* number of handleFileSelect invocations that passed validation
    chats,           \* handleChat invocations suspended at their fetch
    dispatched,      \* number of chat calls dispatched
    sinceReset,      \* resetApp ran and no document has been selected since
    lastOp           \* the handler or continuation that ran last, with its outcome
                     \* ("ui": an event that only edits the input or switches the view)

vars == <<file, extractedText, summaries, loading, chatMessages, chatInput,
          chatLoading, activeView, error, ingests, started, chats, dispatched, sinceReset, lastOp>>

Null == "null"
NoSummary == <<>>
EmptyText == <<>>

-----------------------------------------------------------------------------
\* String helpers, computed as JavaScript computes them.

Whitespace == {" ", "\n", "\t"}

RECURSIVE TrimStart(_)
TrimStart(s) ==
    IF s # <<>> /\ Head(s) \in Whitespace THEN TrimStart(Tail(s)) ELSE s

RECURSIVE TrimEnd(_)
TrimEnd(s) ==
    IF s # <<>> /\ s[Len(s)] \in Whitespace
    THEN TrimEnd(SubSeq(s, 1, Len(s) - 1)) ELSE s

\* String.prototype.trim
Trim(s) == TrimEnd(TrimStart(s))

Min(a, b) == IF a < b THEN a ELSE b

\* String.prototype.substring(from, to), 0-based, end exclusive
Substring(s, from, to) == SubSeq(s, from + 1, Min(to, Len(s)))

\* Array.prototype.join(sep) over an array of strings
RECURSIVE Join(_, _)
Join(items, sep) ==
    IF items = <<>> THEN <<>>
    ELSE IF Len(items) = 1 THEN items[1]
    ELSE items[1] \o sep \o Join(Tail(items), sep)

-----------------------------------------------------------------------------
\* Documents the user can select. A media type is <<major, minor>>.

PdfType == <<"application", "pdf">>
TextType == <<"text", "plain">>

validTypes ==
    { PdfType,
      <<"application", "msword">>,
      <<"application", "vnd.openxmlformats-officedocument.wordprocessingml.document">>,
      TextType,
      <<"image", "jpeg">>,
      <<"image", "png">>,
      <<"image", "jpg">> }

MaxFileSize == 10 * 1024 * 1024

\* The number of characters of the document that handleChat sends.
ChatContextLimit == 20000

\* A text one character longer than ChatContextLimit, its last character unlike
\* the others.
LongText ==
    [i \in 1..(ChatContextLimit + 1) |-> IF i <= ChatContextLimit THEN "x" ELSE "y"]

\* text: the content of a text file; pages: the fragments of each page of a PDF;
\* readable: whether the FileReader / the PDF parser can process the bytes.
Docs ==
    [ notes   |-> [type |-> TextType, size |-> 2, readable |-> TRUE,
                   text |-> <<"h", "i">>, pages |-> <<>>],
      locked  |-> [type |-> TextType, size |-> 2, readable |-> FALSE,
                   text |-> <<"h", "i">>, pages |-> <<>>],
      paper   |-> [type |-> PdfType, size |-> 2048, readable |-> TRUE,
                   text |-> <<>>,
                   pages |-> << << <<"a">>, <<"b">> >>, << <<"c">> >> >>],
      scan    |-> [type |-> PdfType, size |-> 2048, readable |-> TRUE,
                   text |-> <<>>, pages |-> << << <<" ">> >>, << >> >>],
      photo   |-> [type |-> <<"image", "png">>, size |-> 4096, readable |-> TRUE,
                   text |-> <<>>, pages |-> <<>>],
      clip    |-> [type |-> <<"video", "mp4">>, size |-> 4096, readable |-> TRUE,
                   text |-> <<>>, pages |-> <<>>],
      huge    |-> [type |-> PdfType, size |-> MaxFileSize + 1, readable |-> TRUE,
                   text |-> <<>>, pages |-> << << <<"a">> >> >>],
      edge    |-> [type |-> PdfType, size |-> MaxFileSize, readable |-> TRUE,
                   text |-> <<>>, pages |-> << << <<"a">> >> >>],
      movie   |-> [type |-> <<"video", "mp4">>, size |-> MaxFileSize + 1,
                   readable |-> TRUE, text |-> <<>>, pages |-> <<>>],
      letter  |-> [type |-> <<"application", "msword">>, size |-> 4096,
                   readable |-> TRUE, text |-> <<>>, pages |-> <<>>],
      blank   |-> [type |-> PdfType, size |-> 2048, readable |-> TRUE,
                   text |-> <<>>, pages |-> <<>>],
      corrupt |-> [type |-> PdfType, size |-> 2048, readable |-> FALSE,
                   text |-> <<>>, pages |-> <<>>],
      draft   |-> [type |-> <<"application",
                              "vnd.openxmlformats-officedocument.wordprocessingml.document">>,
                   size |-> 4096, readable |-> FALSE, text |-> <<>>, pages |-> <<>>],
      empty   |-> [type |-> TextType, size |-> 0, readable |-> TRUE,
                   text |-> <<>>, pages |-> <<>>],
      book    |-> [type |-> TextType, size |-> ChatContextLimit + 1,
                   readable |-> TRUE, text |-> LongText, pages |-> <<>>] ]

DocNames == DOMAIN Docs

\* The documents the user selects in the runs explored: a text file that reads, a
\* PDF without extractable text, and a file of a type outside validTypes.
Selectable == {"notes", "scan", "clip"}

\* The documents of the runs that explore validation and extraction: one of each
\* media type and outcome, and the sizes around MaxFileSize.
Uploads ==
    {"locked", "empty", "paper", "scan", "photo", "letter", "draft", "blank",
     "corrupt", "clip", "huge", "edge", "movie"}

ImagePlaceholder ==
    <<"[Image support requires OCR which is not yet implemented. Please upload a PDF or text file.]">>
DocPlaceholder ==
    <<"[DOC/DOCX support requires additional libraries not yet installed. Please upload a PDF or text file.]">>

\* The message of the PDF branch for a text that trims to nothing.
NoExtractableText == <<"No text found in PDF (it might be scanned/image-based)">>

\* A page loop that runs from the last page down to the first.
RECURSIVE PdfFullText_Descending(_)
PdfFullText_Descending(pages) ==
    IF pages = <<>> THEN <<>>
    ELSE PdfFullText_Descending(Tail(pages)) \o Join(Head(pages), <<" ">>) \o <<"\n">>

\* The PDF branch's loop: pageText = items.join(' '); fullText += pageText + '\n'
RECURSIVE PdfFullText(_)
PdfFullText(pages) ==
    IF pages = <<>> THEN <<>>
    ELSE Join(Head(pages), <<" ">>) \o <<"\n">> \o PdfFullText(Tail(pages))

\* Whether extractText settles without waiting for I/O: the image and DOC branches
\* call resolve inside the executor.
ExtractsImmediately(d) == Docs[d].type \notin {TextType, PdfType}

\* An extractText without its image branch: an image takes the last branch.
extractText_NoImageBranch(d) ==
    LET doc == Docs[d] IN
    IF doc.type = TextType THEN
        IF doc.readable THEN [ok |-> TRUE, text |-> doc.text]
        ELSE [ok |-> FALSE, text |-> <<"Failed to read text file">>]
    ELSE IF doc.type = PdfType THEN
        IF ~doc.readable
        THEN [ok |-> FALSE, text |-> <<"Failed to extract text from PDF: ", "parse error">>]
        ELSE IF Trim(PdfFullText(doc.pages)) = <<>>
        THEN [ok |-> FALSE, text |-> NoExtractableText]
        ELSE [ok |-> TRUE, text |-> PdfFullText(doc.pages)]
    ELSE [ok |-> TRUE, text |-> DocPlaceholder]

\* extractText(file): the value the promise resolves with, or the message of the
\* Error it rejects with.
extractText(d) ==
    LET doc == Docs[d] IN
    IF doc.type = TextType THEN
        IF doc.readable THEN [ok |-> TRUE, text |-> doc.text]
        ELSE [ok |-> FALSE, text |-> <<"Failed to read text file">>]
    ELSE IF doc.type = PdfType THEN
        IF ~doc.readable
        THEN [ok |-> FALSE, text |-> <<"Failed to extract text from PDF: ", "parse error">>]
        ELSE IF Trim(PdfFullText(doc.pages)) = <<>>
        THEN [ok |-> FALSE,
              text |-> <<"No text found in PDF (it might be scanned/image-based)">>]
        ELSE [ok |-> TRUE, text |-> PdfFullText(doc.pages)]
    ELSE IF doc.type[1] = "image" THEN [ok |-> TRUE, text |-> ImagePlaceholder]
    ELSE [ok |-> TRUE, text |-> DocPlaceholder]

-----------------------------------------------------------------------------
\* The summarization service.

\* What the service answers in the runs explored: a success body, or a non-success
\* status with the body {error: "x"}.
SummarizeResponses == {"ok", "error_x"}

\* Every kind of outcome of the fetch of generateSummaries: a success body; a
\* non-success status with the body {error: "x"}, with a JSON body without an error
\* field, with a body that is not JSON; a fetch that rejects.
AllSummarizeResponses ==
    {"ok", "error_x", "error_none", "error_unparsable", "network"}

\* A request body that loses the last character of the text.
SummarizeRequest_Truncated(text) == [text |-> Substring(text, 0, Len(text) - 1)]

\* The request body of generateSummaries: JSON.stringify({ text }).
SummarizeRequest(text) == [text |-> text]

\* The success body for a request text.
SummaryData(text) == [short |-> <<"summary of: ">> \o text]

\* generateSummaries: the message of the Error thrown for a failed call.
SummarizeErrorMessage(resp) ==
    <<"Failed to generate summaries: ">> \o
        (IF resp = "error_x" THEN <<"x">>
         ELSE IF resp = "error_none" THEN <<"API request failed">>
         ELSE IF resp = "error_unparsable"
         THEN <<"Unexpected token '<', \"<html>\" is not valid JSON">>
         ELSE <<"Failed to fetch">>)

-----------------------------------------------------------------------------
\* The chat service and the outbound message list.

FramingPrefix ==
    "You are a helpful assistant answering questions about this document. Only use information from the document to answer questions.\n\nDocument:\n"
AckText ==
    <<"I understand. I will answer questions based only on the document content provided.">>
GreetingText ==
    <<"Hello! I've analyzed your document. Ask me anything about it!">>
FallbackText ==
    <<"Sorry, I encountered an error. Please try again.">>

Turn(r, c) == [role |-> r, content |-> c]
Greeting == Turn("assistant", GreetingText)
Fallback == Turn("assistant", FallbackText)

\* A framing message that carries the whole text.
FramingMessage_WholeText(text) == Turn("user", <<FramingPrefix>> \o text)

FramingMessage(text) ==
    Turn("user", <<FramingPrefix>> \o Substring(text, 0, ChatContextLimit))

\* The messages array of handleChat, from the chatMessages and extractedText of the
\* render the handler was created in.
BuildMessages(history, text, userMessage) ==
    <<FramingMessage(text), Turn("assistant", AckText)>>
        \o history \o <<Turn("user", userMessage)>>

ChatResponses == {"ok", "error", "network"}

\* Every kind of outcome of the fetch of handleChat: those of ChatResponses, a
\* success status with a JSON body without a content field, and a success status
\* with a body that is not JSON.
AllChatResponses == ChatResponses \cup {"ok_nocontent", "ok_unparsable"}

\* The responses for which handleChat reaches line 172: response.ok holds and
\* response.json() resolves.
ChatSucceeds(resp) == resp \in {"ok", "ok_nocontent"}

\* The value of data.content for a body without that field: the token stands for
\* the value undefined, which is not a string.
Undefined == <<"undefined">>
Answer == <<"an answer">>

\* What the user can type into the chat input.
Inputs == { <<" ">>, <<" ", "q", " ">> }

-----------------------------------------------------------------------------
Init ==
    /\ file = Null
    /\ extractedText = EmptyText
    /\ summaries = NoSummary
    /\ loading = FALSE
    /\ chatMessages = <<>>
    /\ chatInput = EmptyText
    /\ chatLoading = FALSE
    /\ activeView = "upload"
    /\ error = EmptyText
    /\ ingests = {}
    /\ started = 0
    /\ chats = {}
    /\ dispatched = 0
    /\ sinceReset = FALSE
    /\ lastOp = "init"

-----------------------------------------------------------------------------
\* handleFileSelect, up to its first await.

\* The two messages of the validation.
UnsupportedFormat == <<"Please upload a valid file (PDF, DOC, DOCX, TXT)">>
TooLarge == <<"File size must be less than 10MB">>

\* A validation without its size test.
ValidationError_NoSizeTest(d) ==
    IF Docs[d].type \notin validTypes THEN UnsupportedFormat ELSE EmptyText

\* A validation without its type test.
ValidationError_NoTypeTest(d) ==
    IF Docs[d].size > MaxFileSize THEN TooLarge ELSE EmptyText

\* The validation at the head of handleFileSelect: the error it sets, or none.
ValidationError(d) ==
    IF Docs[d].type \notin validTypes
    THEN <<"Please upload a valid file (PDF, DOC, DOCX, TXT)">>
    ELSE IF Docs[d].size > MaxFileSize
    THEN <<"File size must be less than 10MB">>
    ELSE EmptyText

\* An invocation of handleFileSelect suspended at an await.
\* pc: "extracting" (await extractText, line 56) or "summarizing" (await
\* generateSummaries, line 59); text: the const text of line 56; preText: the
\* extractedText the handler found when it was invoked.
\* requests: the bodies of the summarization requests it has sent.
Ingest(d, pc, text) ==
    [id |-> started + 1, file |-> d, pc |-> pc, text |-> text,
     preText |-> extractedText,
     requests |-> IF pc = "summarizing" THEN <<SummarizeRequest(text)>> ELSE <<>>]

\* The user picks a document in the file dialog of the upload view (d = Null: the
\* dialog is cancelled).
HandleFileSelect(d) ==
    /\ activeView = "upload"
    /\ IF d = Null THEN
            /\ lastOp' = "ui"
            /\ UNCHANGED <<file, extractedText, summaries, loading, chatMessages,
                           chatInput, chatLoading, activeView, error, ingests,
                           started, chats, dispatched, sinceReset>>
       ELSE IF ValidationError(d) # EmptyText THEN
            /\ error' = ValidationError(d)
            /\ lastOp' = "selectRejected"
            /\ UNCHANGED <<file, extractedText, summaries, loading, chatMessages,
                           chatInput, chatLoading, activeView, ingests, started,
                           chats, dispatched, sinceReset>>
       ELSE
            /\ started < MaxIngest
            /\ file' = d
            /\ loading' = TRUE
            /\ error' = EmptyText
            /\ activeView' = "summary"
            /\ IF ExtractsImmediately(d)
               THEN /\ extractedText' = extractText(d).text
                    /\ ingests' = ingests \cup
                                    {Ingest(d, "summarizing", extractText(d).text)}
               ELSE /\ extractedText' = extractedText
                    /\ ingests' = ingests \cup {Ingest(d, "extracting", EmptyText)}
            /\ started' = started + 1
            /\ sinceReset' = FALSE
            /\ lastOp' = "selectAccepted"
            /\ UNCHANGED <<summaries, chatMessages, chatInput, chatLoading, chats,
                           dispatched>>

\* The catch block without its setFile(null).
CatchIngest_KeepsFile(message) ==
    /\ error' = <<"Error processing document: ">> \o message
    /\ activeView' = "upload"
    /\ file' = file
    /\ loading' = FALSE

\* The catch and finally blocks of handleFileSelect, for the Error message.
CatchIngest(message) ==
    /\ error' = <<"Error processing document: ">> \o message
    /\ activeView' = "upload"
    /\ file' = Null
    /\ loading' = FALSE

\* extractText settles for invocation t: the handler resumes after line 56.
ExtractSettles(t) ==
    /\ t.pc = "extracting"
    /\ LET r == extractText(t.file) IN
       IF r.ok THEN
            /\ extractedText' = r.text
            /\ ingests' = (ingests \ {t}) \cup
                            {[t EXCEPT !.pc = "summarizing", !.text = r.text,
                                       !.requests = Append(@, SummarizeRequest(r.text))]}
            /\ lastOp' = "extractOk"
            /\ UNCHANGED <<file, summaries, loading, chatMessages, chatInput,
                           chatLoading, activeView, error, started, chats,
                           dispatched, sinceReset>>
       ELSE
            /\ CatchIngest(r.text)
            /\ ingests' = ingests \ {t}
            /\ lastOp' = "extractFailed"
            /\ UNCHANGED <<extractedText, summaries, chatMessages, chatInput,
                           chatLoading, started, chats, dispatched, sinceReset>>

\* generateSummaries settles for invocation t: the handler resumes after line 59.
SummarizeSettles(t, resp) ==
    /\ t.pc = "summarizing"
    /\ ingests' = ingests \ {t}
    /\ IF resp = "ok" THEN
            /\ summaries' = <<SummaryData(t.text)>>
            /\ chatMessages' = <<Greeting>>
            /\ loading' = FALSE
            /\ lastOp' = "summarizeOk"
            /\ UNCHANGED <<file, extractedText, chatInput, chatLoading, activeView,
                           error, started, chats, dispatched, sinceReset>>
       ELSE
            /\ CatchIngest(SummarizeErrorMessage(resp))
            /\ lastOp' = "summarizeFailed"
            /\ UNCHANGED <<extractedText, summaries, chatMessages, chatInput,
                           chatLoading, started, chats, dispatched, sinceReset>>

-----------------------------------------------------------------------------
\* The chat view.

\* onChange of the chat input.
TypeInput(s) ==
    /\ activeView = "chat"
    /\ chatInput' = s
    /\ lastOp' = "ui"
    /\ UNCHANGED <<file, extractedText, summaries, loading, chatMessages,
                   chatLoading, activeView, error, ingests, started, chats,
                   dispatched, sinceReset>>

\* The early return with its input test applied to the untrimmed input.
ChatRejected_NoTrim == chatInput = EmptyText \/ chatLoading

\* The early return without its chatLoading test.
ChatRejected_NoLoadingTest == Trim(chatInput) = EmptyText

\* The early return of handleChat.
ChatRejected == Trim(chatInput) = EmptyText \/ chatLoading

\* An invocation of handleChat suspended at its fetch (line 159), with the messages
\* it sent.
Chat(messages) == [id |-> dispatched + 1, messages |-> messages]

\* handleChat, up to its await: the Send button or the Enter key of the chat view.
HandleChat ==
    /\ activeView = "chat"
    /\ IF ChatRejected THEN
            /\ lastOp' = "chatRejected"
            /\ UNCHANGED <<file, extractedText, summaries, loading, chatMessages,
                           chatInput, chatLoading, activeView, error, ingests,
                           started, chats, dispatched, sinceReset>>
       ELSE
            /\ dispatched < MaxChats
            /\ chatInput' = EmptyText
            /\ chatMessages' = Append(chatMessages, Turn("user", Trim(chatInput)))
            /\ chatLoading' = TRUE
            /\ chats' = chats \cup
                   {Chat(BuildMessages(chatMessages, extractedText, Trim(chatInput)))}
            /\ dispatched' = dispatched + 1
            /\ lastOp' = "chatSent"
            /\ UNCHANGED <<file, extractedText, summaries, loading, activeView,
                           error, ingests, started, sinceReset>>

\* A catch block that shows the error instead of the fixed apology.
AssistantTurn_ShowsError(resp) ==
    IF resp = "ok" THEN Turn("assistant", Answer)
    ELSE Turn("assistant", <<"Chat API request failed">>)

\* The assistant turn handleChat appends for a response.
AssistantTurn(resp) ==
    IF resp = "ok" THEN Turn("assistant", Answer)
    ELSE IF resp = "ok_nocontent" THEN Turn("assistant", Undefined)
    ELSE Fallback

\* A handleChat without its finally block.
FinallyChat_Missing == chatLoading' = chatLoading

\* The finally block of handleChat.
FinallyChat == chatLoading' = FALSE

\* The chat fetch settles for invocation c: the handler resumes after line 159.
ChatSettles(c, resp) ==
    /\ chats' = chats \ {c}
    /\ chatMessages' = Append(chatMessages, AssistantTurn(resp))
    /\ FinallyChat
    /\ lastOp' = IF ChatSucceeds(resp) THEN "chatAnswered" ELSE "chatFailed"
    /\ UNCHANGED <<file, extractedText, summaries, loading, chatInput, activeView,
                   error, ingests, started, dispatched, sinceReset>>

-----------------------------------------------------------------------------
\* The Summary / Chat tabs, rendered in the summary and the chat view.
SetActiveView(v) ==
    /\ activeView \in {"summary", "chat"}
    /\ activeView' = v
    /\ lastOp' = "ui"
    /\ UNCHANGED <<file, extractedText, summaries, loading, chatMessages, chatInput,
                   chatLoading, error, ingests, started, chats, dispatched, sinceReset>>

\* The Reset button, rendered while file is set.
resetApp ==
    /\ file # Null
    /\ file' = Null
    /\ extractedText' = EmptyText
    /\ summaries' = NoSummary
    /\ chatMessages' = <<>>
    /\ activeView' = "upload"
    /\ error' = EmptyText
    /\ sinceReset' = TRUE
    /\ lastOp' = "resetApp"
    /\ UNCHANGED <<loading, chatInput, chatLoading, ingests, started, chats,
                   dispatched>>

-----------------------------------------------------------------------------
Next ==
    \/ \E d \in Selectable \cup {Null} : HandleFileSelect(d)
    \/ \E t \in ingests : ExtractSettles(t)
    \/ \E t \in ingests, resp \in SummarizeResponses : SummarizeSettles(t, resp)
    \/ \E s \in Inputs : TypeInput(s)
    \/ HandleChat
    \/ \E c \in chats, resp \in ChatResponses : ChatSettles(c, resp)
    \/ \E v \in {"summary", "chat"} : SetActiveView(v)
    \/ resetApp

Spec == Init /\ [][Next]_vars

\* The remote calls and the file reads settle: no await is left pending forever.
FairSpec ==
    /\ Spec
    /\ WF_vars(\E t \in ingests : ExtractSettles(t))
    /\ WF_vars(\E t \in ingests, resp \in SummarizeResponses : SummarizeSettles(t, resp))
    /\ WF_vars(\E c \in chats, resp \in ChatResponses : ChatSettles(c, resp))

\* The runs that explore validation, extraction and summarization over every kind
\* of document and of response of the two services, with one question asked in the
\* chat view.
IntakeNext ==
    \/ \E d \in Uploads \cup {Null} : HandleFileSelect(d)
    \/ \E t \in ingests : ExtractSettles(t)
    \/ \E t \in ingests, resp \in AllSummarizeResponses : SummarizeSettles(t, resp)
    \/ TypeInput(<<"q">>)
    \/ HandleChat
    \/ \E c \in chats, resp \in AllChatResponses : ChatSettles(c, resp)
    \/ \E v \in {"summary", "chat"} : SetActiveView(v)

IntakeSpec == Init /\ [][IntakeNext]_vars

\* The runs that explore the chat over a short text and over a text longer than
\* ChatContextLimit.
ReadingNext ==
    \/ \E d \in {"notes", "book"} : HandleFileSelect(d)
    \/ \E t \in ingests : ExtractSettles(t)
    \/ \E t \in ingests, resp \in SummarizeResponses : SummarizeSettles(t, resp)
    \/ TypeInput(<<"q">>)
    \/ HandleChat
    \/ \E c \in chats, resp \in {"ok", "error"} : ChatSettles(c, resp)
    \/ \E v \in {"summary", "chat"} : SetActiveView(v)

ReadingSpec == Init /\ [][ReadingNext]_vars

-----------------------------------------------------------------------------
\* States of the Session named by the specification.

\* The Session aggregate is empty.
SessionEmpty ==
    /\ file = Null
    /\ extractedText = EmptyText
    /\ summaries = NoSummary
    /\ chatMessages = <<>>

\* A document is selected and summarized and no ingestion is in progress.
Summarized ==
    /\ file # Null
    /\ summaries # NoSummary
    /\ ingests = {}
    /\ ~loading

\* Ready: summarized, greeting seeded, no chat call in flight.
Ready ==
    /\ Summarized
    /\ chatMessages # <<>>
    /\ chatMessages[1] = Greeting
    /\ chats = {}
    /\ ~chatLoading

\* The step is an invocation of handleChat.
ChatSubmission == lastOp' \in {"chatSent", "chatRejected"}

\* h is the greeting followed by user/assistant pairs.
Alternating(h) ==
    /\ Len(h) % 2 = 1
    /\ h[1] = Greeting
    /\ \A k \in 2..Len(h) : h[k].role = (IF k % 2 = 0 THEN "user" ELSE "assistant")

\* The prior turns a dispatched message list replays (between the framing pair and
\* the new user turn).
Replayed(m) == SubSeq(m, 3, Len(m) - 1)

UserTurns(h) == Cardinality({k \in DOMAIN h : h[k].role = "user"})

-----------------------------------------------------------------------------
\* C1: a handleChat invocation while a chat call is in flight dispatches no second
\* call and leaves chatMessages unchanged; at most one chat call is in flight.
C1_SingleChatInFlight ==
    /\ [](Cardinality(chats) <= 1)
    /\ [][(chats # {} /\ ChatSubmission) =>
            (lastOp' = "chatRejected" /\ chats' = chats
             /\ chatMessages' = chatMessages)]_vars

\* A non-empty submission was rejected because a call is in flight.
C1_Witness ==
    /\ lastOp = "chatRejected"
    /\ chats # {}
    /\ Trim(chatInput) # EmptyText

\* C2: outside Ready, a handleChat invocation appends no turn and dispatches no call.
C2_ChatOnlyInReady ==
    [][(~Ready /\ ChatSubmission) =>
        (chatMessages' = chatMessages /\ chats' = chats)]_vars

\* C3: after resetApp and until a document is selected, the Session stays empty.
C3_ResetStaysEmpty == sinceReset => SessionEmpty

\* C4: the state resetApp leaves is the state of a fresh component, with nothing
\* in flight that could write into it.
C4_ResetIsFresh ==
    lastOp = "resetApp" =>
        /\ SessionEmpty
        /\ ~loading
        /\ ~chatLoading
        /\ chatInput = EmptyText
        /\ activeView = "upload"
        /\ error = EmptyText
        /\ ingests = {}
        /\ chats = {}

\* C5: a dispatched message list is the framing message, the acknowledgment, the
\* 2N+1 prior turns (greeting, then N user/assistant pairs) and the new user turn.
C5_MessageListShape ==
    \A c \in chats :
        LET m == c.messages
            N == UserTurns(Replayed(m))
        IN  /\ Len(m) = 2 * N + 4
            /\ m[1].role = "user" /\ Head(m[1].content) = FramingPrefix
            /\ m[2] = Turn("assistant", AckText)
            /\ Alternating(Replayed(m))
            /\ m[Len(m)].role = "user"

\* C6: in Ready chatMessages is the greeting followed by user/assistant pairs; while
\* a chat call is awaited it is that followed by the pending user turn.
C6_ConversationShape ==
    /\ (Summarized /\ ~chatLoading) => Alternating(chatMessages)
    /\ chatLoading =>
        /\ chatMessages # <<>>
        /\ chatMessages[Len(chatMessages)].role = "user"
        /\ Alternating(SubSeq(chatMessages, 1, Len(chatMessages) - 1))

\* C7: a failed chat call appends the fallback turn and nothing else, changes no
\* other part of the Session, surfaces no error and clears chatLoading; and every
\* dispatched call replays the whole of chatMessages, so the failed exchange too.
C7_ChatFailureIsLocal ==
    /\ [][lastOp' = "chatFailed" =>
            /\ chatMessages' = Append(chatMessages, Fallback)
            /\ UNCHANGED <<file, extractedText, summaries, error, activeView>>
            /\ ~chatLoading']_vars
    /\ [][lastOp' = "chatSent" =>
            \E c \in chats' \ chats : Replayed(c.messages) = chatMessages]_vars

\* A call dispatched after a failed one carries the failed exchange.
C7_Witness ==
    \E c \in chats : \E k \in 2..Len(c.messages) :
        /\ c.messages[k] = Fallback
        /\ c.messages[k - 1].role = "user"

C9_ExtractionFailureAborts ==
    [][lastOp' = "extractFailed" =>
        /\ file' = Null
        /\ ~loading'
        /\ UNCHANGED <<summaries, chatMessages, extractedText>>
        /\ ingests' \subseteq ingests
        /\ Cardinality(ingests') = Cardinality(ingests) - 1]_vars

\* An extraction failed in a Session that had no summary and no turn.
C9_Witness ==
    /\ lastOp = "extractFailed"
    /\ file = Null
    /\ summaries = NoSummary
    /\ chatMessages = <<>>

\* C10: a failed summarization leaves the Session as the ingestion found it:
\* no document, the earlier extractedText, summaries and chatMessages untouched.
C10_SummarizeFailureRestores ==
    [][lastOp' = "summarizeFailed" =>
        /\ file' = Null
        /\ \A t \in ingests \ ingests' : extractedText' = t.preText
        /\ UNCHANGED <<summaries, chatMessages>>]_vars

-----------------------------------------------------------------------------
\* Validation (claims C11 to C13).

\* The step is handleFileSelect run on document d.
Selects(d) == d # Null /\ HandleFileSelect(d)

\* The step starts no extraction and no summarization call.
NoIngestStarted == UNCHANGED <<ingests, started, loading>>

\* C11 (as amended): a document larger than MaxFileSize is always rejected and no
\* extraction is started for it; the error is TooLarge when its media type is in
\* validTypes and UnsupportedFormat when it is not, the type being tested first.
C11_OversizeRejected ==
    [][\A d \in DocNames :
         (Docs[d].size > MaxFileSize /\ Selects(d)) =>
             /\ lastOp' = "selectRejected"
             /\ error' = IF Docs[d].type \in validTypes THEN TooLarge
                                                        ELSE UnsupportedFormat
             /\ NoIngestStarted]_vars

\* C11 as stated: every document larger than MaxFileSize, whatever its media type,
\* is rejected with TooLarge and no extraction is started for it.
C11_OversizeAlwaysTooLarge ==
    [][\A d \in DocNames :
         (Docs[d].size > MaxFileSize /\ Selects(d)) =>
             /\ lastOp' = "selectRejected"
             /\ error' = TooLarge
             /\ NoIngestStarted]_vars

\* C11: an oversize document has been rejected with TooLarge.
C11_Witness == lastOp = "selectRejected" /\ error = TooLarge

\* C12: the ceiling is inclusive: a document of an allowed media type is rejected
\* with TooLarge when its size is MaxFileSize or more, and accepted only when it is
\* strictly smaller.
C12_CeilingInclusive ==
    [][\A d \in DocNames :
         (Docs[d].type \in validTypes /\ Selects(d)) =>
             IF Docs[d].size >= MaxFileSize
             THEN lastOp' = "selectRejected" /\ error' = TooLarge
             ELSE lastOp' = "selectAccepted"]_vars

\* C13: a document whose media type is outside validTypes is rejected with
\* UnsupportedFormat, and a rejected selection starts no extraction and no
\* summarization and leaves the document, the extracted text, the summaries and the
\* conversation as they were.
C13_ValidationIsPure ==
    [][\A d \in DocNames :
         Selects(d) =>
             /\ Docs[d].type \notin validTypes =>
                    lastOp' = "selectRejected" /\ error' = UnsupportedFormat
             /\ lastOp' = "selectRejected" =>
                    /\ NoIngestStarted
                    /\ UNCHANGED <<file, extractedText, summaries, chatMessages,
                                   chatInput, chatLoading, chats, dispatched,
                                   activeView>>]_vars

\* C13: a selection has been rejected for its media type in a session that held an
\* extracted text and a conversation from an earlier ingestion.
C13_Witness ==
    /\ lastOp = "selectRejected"
    /\ error = UnsupportedFormat
    /\ extractedText # EmptyText
    /\ chatMessages # <<>>

-----------------------------------------------------------------------------
\* Service calls (claim C14).

\* The invocations of handleFileSelect whose summarization call is in flight.
SummarizeCalls == {t \in ingests : t.pc = "summarizing"}

\* C14: a summarization call is issued only by the step in which the extraction of
\* its document succeeds, one call per such step, with the whole extracted text as
\* its request text; an invocation that settles has sent one request if it reached
\* summarization and none otherwise, and a settling call is never issued again; a
\* chat call is issued only by an accepted submission, one per submission.
C14_OneSummarizeCall ==
    [][/\ \A t \in SummarizeCalls' \ SummarizeCalls :
            /\ lastOp' \in {"selectAccepted", "extractOk"}
            /\ extractText(t.file).ok
            /\ extractedText' = extractText(t.file).text
            /\ t.requests = << [text |-> extractedText'] >>
       /\ Cardinality(SummarizeCalls' \ SummarizeCalls) <= 1
       /\ lastOp' = "extractOk" => Cardinality(SummarizeCalls' \ SummarizeCalls) = 1
       /\ \A t \in ingests' :
            Len(t.requests) = IF t.pc = "summarizing" THEN 1 ELSE 0
       /\ lastOp' \in {"extractFailed", "summarizeOk", "summarizeFailed"} =>
            /\ ingests' \subseteq ingests
            /\ Cardinality(ingests \ ingests') = 1
       /\ lastOp' = "selectAccepted" =>
            /\ ingests \subseteq ingests'
            /\ Cardinality(ingests' \ ingests) = 1
       /\ chats' \ chats # {} =>
            lastOp' = "chatSent" /\ Cardinality(chats' \ chats) = 1
       /\ lastOp' \in {"chatAnswered", "chatFailed"} =>
            chats' \subseteq chats /\ Cardinality(chats \ chats') = 1]_vars

\* C14: the summarization call of a second ingestion is in flight, carrying an
\* extracted text of several characters.
C14_Witness ==
    /\ started = 2
    /\ \E t \in ingests :
         /\ t.id = 2
         /\ t.pc = "summarizing"
         /\ Len(extractedText) > 1
         /\ t.requests = << [text |-> extractedText] >>

-----------------------------------------------------------------------------
\* The document in the chat requests (claim C15).

\* The first n characters of a text, or the whole text when it has no more.
FirstChars(text, n) == [i \in 1..Min(n, Len(text)) |-> text[i]]

\* The step is one of handleChat: a submission or the settling of a chat call.
ChatStep ==
    lastOp' \in {"chatSent", "chatRejected", "chatAnswered", "chatFailed"}

\* C15: the first message of every chat request is the framing prefix followed by
\* the first ChatContextLimit characters of the extracted text, the whole text when
\* it is not longer, whatever the number of turns so far; no step of handleChat
\* changes the stored extracted text.
C15_FramingTruncated ==
    [][/\ \A c \in chats' \ chats :
            /\ c.messages[1].role = "user"
            /\ c.messages[1].content =
                   <<FramingPrefix>> \o FirstChars(extractedText, ChatContextLimit)
            /\ Len(c.messages[1].content) <= 1 + ChatContextLimit
       /\ ChatStep => extractedText' = extractedText]_vars

\* C15: a second chat request has been sent over a text longer than
\* ChatContextLimit, which is still stored whole.
C15_Witness ==
    /\ lastOp = "chatSent"
    /\ dispatched = 2
    /\ Len(chatMessages) > 2
    /\ Len(extractedText) > ChatContextLimit
    /\ \E c \in chats :
         c.id = 2 /\ Len(c.messages[1].content) = 1 + ChatContextLimit

-----------------------------------------------------------------------------
\* PDF extraction (claim C16).

\* The text of pages 1 to n in ascending order: the fragments of each page joined
\* by single spaces, a newline after each page.
RECURSIVE PagesUpTo(_, _)
PagesUpTo(pages, n) ==
    IF n = 0 THEN <<>>
    ELSE PagesUpTo(pages, n - 1) \o Join(pages[n], <<" ">>) \o <<"\n">>

WhitespaceOnly(s) == \A i \in 1..Len(s) : s[i] \in Whitespace

\* C16: when the extraction of a parsable PDF settles, the text of its pages 1 to
\* pageCount in ascending order becomes the extracted text, unless that text is empty
\* or only whitespace (as for a PDF without pages): then the extraction fails with
\* NoExtractableText and no summarization call is issued.
C16_PdfPagesInOrder ==
    [][\A t \in ingests :
         (Docs[t.file].type = PdfType /\ Docs[t.file].readable /\ ExtractSettles(t)) =>
             LET full == PagesUpTo(Docs[t.file].pages, Len(Docs[t.file].pages)) IN
             IF WhitespaceOnly(full)
             THEN /\ lastOp' = "extractFailed"
                  /\ error' = <<"Error processing document: ">> \o NoExtractableText
                  /\ extractedText' = extractedText
                  /\ SummarizeCalls' = SummarizeCalls
             ELSE /\ lastOp' = "extractOk"
                  /\ extractedText' = full]_vars

\* C16: the two pages of the PDF, of fragments "a", "b" and of fragment "c", have
\* been extracted.
C16_Witness ==
    /\ lastOp = "extractOk"
    /\ file = "paper"
    /\ extractedText = <<"a", " ", "b", "\n", "c", "\n">>

-----------------------------------------------------------------------------
\* Images and Word documents (claim C17).

\* The documents of validTypes that are neither plain text nor PDF.
PlaceholderDocs == {d \in DocNames : Docs[d].type \in validTypes \ {TextType, PdfType}}

\* The placeholder of the format of d.
PlaceholderFor(d) ==
    IF Docs[d].type \in {<<"image", "jpeg">>, <<"image", "png">>, <<"image", "jpg">>}
    THEN ImagePlaceholder
    ELSE DocPlaceholder

\* C17: accepting an image or a Word document stores the placeholder of its format as
\* the extracted text, whatever the file holds, and issues one summarization call
\* carrying it; when that call succeeds the summaries of the placeholder and the
\* greeting are stored and loading ends; a chat request sent when the session is
\* ready for such a document frames the placeholder.
C17_PlaceholderPipeline ==
    [][/\ \A d \in PlaceholderDocs :
            (Selects(d) /\ lastOp' = "selectAccepted") =>
                /\ extractedText' = PlaceholderFor(d)
                /\ \E t \in SummarizeCalls' \ SummarizeCalls :
                     /\ SummarizeCalls' \ SummarizeCalls = {t}
                     /\ t.file = d
                     /\ t.requests = << [text |-> PlaceholderFor(d)] >>
       /\ \A t \in SummarizeCalls :
            (t.file \in PlaceholderDocs /\ SummarizeSettles(t, "ok")) =>
                /\ summaries' = <<SummaryData(PlaceholderFor(t.file))>>
                /\ chatMessages' = <<Greeting>>
                /\ ~loading'
                /\ extractedText' = PlaceholderFor(t.file)
       /\ \A c \in chats' \ chats :
            (Ready /\ file \in PlaceholderDocs) =>
                c.messages[1].content = <<FramingPrefix>> \o PlaceholderFor(file)]_vars

\* C17: a chat request framing the image placeholder is in flight in a session made
\* ready by an image.
C17_Witness ==
    /\ file = "photo"
    /\ summaries = <<SummaryData(ImagePlaceholder)>>
    /\ chatMessages[1] = Greeting
    /\ \E c \in chats :
         /\ c.messages[1].content = <<FramingPrefix>> \o ImagePlaceholder
         /\ c.messages[3] = Greeting

-----------------------------------------------------------------------------
\* Failed summarization (claim C18).

\* The non-success responses of the summarization service.
FailureResponses == {"error_x", "error_none", "error_unparsable"}

\* C18: a non-success summarization response fails the ingestion with the error
\* string of the body when it carries one ({error: "x"} gives "x") and with the
\* generic message otherwise, also when the body has no error field or is not
\* JSON; the message is read after the two fixed prefixes of the displayed error.
C18_ServiceMessageOrGeneric ==
    [][\A t \in SummarizeCalls, resp \in FailureResponses :
         SummarizeSettles(t, resp) =>
             /\ lastOp' = "summarizeFailed"
             /\ error' = <<"Error processing document: ",
                           "Failed to generate summaries: ">>
                            \o (IF resp = "error_x" THEN <<"x">>
                                                    ELSE <<"API request failed">>)]_vars

-----------------------------------------------------------------------------
\* Blank chat submissions (claim C19).

\* C19: a submission of an empty or whitespace-only input is rejected and changes
\* nothing: no turn is appended, no chat call is dispatched, chatLoading is not set
\* and the input keeps its text.
C19_BlankSubmissionIgnored ==
    [][(ChatSubmission /\ WhitespaceOnly(chatInput)) =>
            /\ lastOp' = "chatRejected"
            /\ UNCHANGED <<chatMessages, chats, dispatched, chatLoading, chatInput>>
            /\ UNCHANGED <<file, extractedText, summaries, loading, activeView,
                           error, ingests, started>>]_vars

\* C19: a whitespace-only input has been submitted and rejected while no chat call
\* was in flight, and is still in the input.
C19_Witness ==
    /\ lastOp = "chatRejected"
    /\ chatInput # EmptyText
    /\ WhitespaceOnly(chatInput)
    /\ ~chatLoading
    /\ chats = {}

-----------------------------------------------------------------------------
\* Serial execution (claim C20).

\* C20: at most one of the extractions, summarization calls and chat calls of the
\* session is in flight: no chat call beside an ingestion, no second ingestion beside
\* an unresolved one.
C20_NoParallelCalls == Cardinality(ingests) + Cardinality(chats) <= 1

-----------------------------------------------------------------------------
\* Late completions (claim C21).

\* The step is the settling of an await of handleFileSelect.
IngestStep ==
    lastOp' \in {"extractOk", "extractFailed", "summarizeOk", "summarizeFailed"}

\* The invocation of handleFileSelect that resumes in the step.
Resumed == ingests \ ingests'

\* C21: the completion or failure of an ingestion started for an earlier document,
\* settling while the session holds a newer document, does not overwrite the
\* extracted text or the summaries, does not change the conversation and does not
\* clear the document.
C21_LateCompletionIgnored ==
    [][(IngestStep /\ file # Null /\ \E t \in Resumed : t.id < started) =>
            UNCHANGED <<file, extractedText, summaries, chatMessages>>]_vars

-----------------------------------------------------------------------------
\* The conversation only grows (claim C22).

\* C22: a step other than a reset that changes the conversation appends one turn
\* and keeps the turns already there, and the greeting is only stored over an empty
\* conversation.
C22_AppendOnly ==
    [][lastOp' # "resetApp" =>
            /\ chatMessages' # chatMessages =>
                    /\ Len(chatMessages') = Len(chatMessages) + 1
                    /\ SubSeq(chatMessages', 1, Len(chatMessages)) = chatMessages
            /\ lastOp' = "summarizeOk" => chatMessages = <<>>]_vars

-----------------------------------------------------------------------------
\* Malformed chat responses (claim C23).

\* C23: the assistant turn appended when a chat call settles is the content returned
\* by the service or the fallback turn; for a success status whose body has no
\* content field or is not JSON it is the fallback turn.
C23_AnswerOrFallback ==
    [][/\ lastOp' \in {"chatAnswered", "chatFailed"} =>
            chatMessages'[Len(chatMessages')] \in {Turn("assistant", Answer), Fallback}
       /\ \A c \in chats, resp \in {"ok_nocontent", "ok_unparsable"} :
            ChatSettles(c, resp) =>
                chatMessages' = Append(chatMessages, Fallback)]_vars

-----------------------------------------------------------------------------
\* Empty extracted text (claim C24).

\* C24: no summarization call carries an empty extracted text, and a session with
\* a document and summaries has a non-empty extracted text, whatever the format of
\* the document.
C24_ExtractedTextNonEmpty ==
    /\ \A t \in SummarizeCalls : t.text # EmptyText
    /\ (file # Null /\ summaries # NoSummary) => extractedText # EmptyText

-----------------------------------------------------------------------------
\* Consistency of the session (claim C25).

\* C25: summaries are present only with a document and an extracted text, the
\* conversation is non-empty only with summaries, and loading is set exactly while
\* an invocation of handleFileSelect is pending.
C25_AggregateConsistent ==
    /\ summaries # NoSummary => (file # Null /\ extractedText # EmptyText)
    /\ chatMessages # <<>> => summaries # NoSummary
    /\ loading <=> ingests # {}

====
